---- MODULE Spec2Model ----
(***************************************************************************)
(* A model of t, the command-line task tracker (src/t.go).                 *)
(*                                                                         *)
(* Strings are sequences of one-character strings, so that slicing         *)
(* (id[:i]), strings.HasPrefix and string comparison are what the Go code  *)
(* computes.  A Go map is a function whose DOMAIN is its key set.  A Go    *)
(* run-time panic is an explicit outcome.                                  *)
(*                                                                         *)
(* The specifications:                                                     *)
(*   Spec      the TaskDict of main(): add, edit, finish, remove, each     *)
(*             followed by write, starting from an empty collection;       *)
(*   ListSpec  a TaskDict loaded from a task file holding arbitrary ids,   *)
(*             on which print_list runs prefixes, or getItem resolves a    *)
(*             reference;                                                  *)
(*   CodecSpec a partition built by add, encoded into task lines and       *)
(*             decoded again;                                              *)
(*   WriteSpec write on partitions and task files in any state;            *)
(*   LoadSpec  NewTaskDict on task files in any state;                     *)
(*   TaskListSpec  Add and Finish on the TaskList of the earlier revision  *)
(*             (src/unnamed/part_001).                                     *)
(***************************************************************************)
EXTENDS Integers, Sequences, FiniteSets, TLC

VARIABLES tasks, done, files, last, err, ids, ps, k, pc, ps_swapped, picked,
          opt, lines, decoded, tasklist

vars == <<tasks, done, files, last, err, ids, ps, k, pc, ps_swapped, picked,
          opt, lines, decoded, tasklist>>

(***************************************************************************)
(* Bounds                                                                  *)
(***************************************************************************)
MaxIdLen == 3
MaxIds == 3
HashLen == 2

(***************************************************************************)
(* Strings and maps                                                        *)
(***************************************************************************)
EmptyString == << >>

EmptyMap == << >>

\* s[:n]
Slice(s, n) == SubSeq(s, 1, n)

\* strings.HasPrefix(s, prefix)
HasPrefix(s, prefix) ==
    /\ Len(prefix) <= Len(s)
    /\ Slice(s, Len(prefix)) = prefix

\* m[key] = value
Put(m, key, value) ==
    [x \in (DOMAIN m) \cup {key} |-> IF x = key THEN value ELSE m[x]]

\* delete(m, key)
Delete(m, key) == [x \in (DOMAIN m) \ {key} |-> m[x]]

Range(f) == {f[x] : x \in DOMAIN f}

\* the strings of length 1..n over the characters cs
StringsUpTo(cs, n) == UNION {[1..m -> cs] : m \in 1..n}

\* the orders in which a range loop can visit the set S
Orders(S) ==
    {o \in [1..Cardinality(S) -> S] : \A x \in S : \E i \in DOMAIN o : o[i] = x}

Min(S) == CHOOSE x \in S : \A y \in S : x <= y

(***************************************************************************)
(* prefixes (src/t.go:108-149)                                             *)
(*                                                                         *)
(* An outcome of a piece of code that can panic is a record                *)
(* [panic |-> BOOLEAN, ps |-> the map as far as it was built].             *)
(***************************************************************************)

\* The value of i when the loop of lines 118-124 ends: the first i whose
\* slot id[:i] is empty or does not hold id[:i] itself; len(id)+1 when the
\* loop runs to its end.
first_slot(m, id) ==
    LET free == {i \in 1..Len(id) :
                    \/ Slice(id, i) \notin DOMAIN m
                    \/ m[Slice(id, i)] /= Slice(id, i)}
    IN  IF free = {} THEN Len(id) + 1 ELSE Min(free)

\* The loop of lines 127-135, from position j on.  other_id[:j] is a
\* run-time panic when j exceeds len(other_id).
RECURSIVE collision_loop(_, _, _, _)
collision_loop(m, id, other_id, j) ==
    IF j >= Len(id) + 1 THEN [panic |-> FALSE, ps |-> m]
    ELSE IF j > Len(other_id) THEN [panic |-> TRUE, ps |-> m]
    ELSE IF Slice(other_id, j) = Slice(id, j)
         THEN collision_loop(Put(m, Slice(id, j), EmptyString), id, other_id, j + 1)
         ELSE [panic |-> FALSE,
               ps |-> Put(Put(m, Slice(other_id, j), other_id), Slice(id, j), id)]

\* Lines 136-137, which run after the loop however it ended (Go has no
\* for/else).  other_id[:id_len+1] is a run-time panic when other_id is not
\* longer than id.
after_collision(m, id, other_id) ==
    IF Len(id) + 1 > Len(other_id) THEN [panic |-> TRUE, ps |-> m]
    ELSE [panic |-> FALSE,
          ps |-> Put(Put(m, Slice(other_id, Len(id) + 1), other_id), id, id)]

\* One iteration of the loop over ids, lines 115-142, for a non-empty id
\* (the inner loop then assigns prefix at least once, so the value prefix
\* kept from the previous id is never read).
prefixes_insert(m, id) ==
    LET i == first_slot(m, id)
        prefix == Slice(id, IF i > Len(id) THEN Len(id) ELSE i)
    IN  IF prefix \in DOMAIN m
        THEN LET other_id == m[prefix]
                 looped == collision_loop(m, id, other_id, i)
             IN  IF looped.panic THEN looped
                 ELSE after_collision(looped.ps, id, other_id)
        ELSE [panic |-> FALSE, ps |-> Put(m, prefix, id)]

\* Lines 143-148: ps is inverted by a range loop, so an id held by several
\* slots keeps the slot the loop visits last, which can be any of them;
\* then the entry of "" is deleted.
swapped(m) ==
    {sw \in [Range(m) \ {EmptyString} -> DOMAIN m] : \A v \in DOMAIN sw : m[sw[v]] = v}

\* prefixes run over the ids in the order given, as a whole.
RECURSIVE prefixes_from(_, _, _)
prefixes_from(m, order, n) ==
    IF n > Len(order) THEN [panic |-> FALSE, ps |-> m]
    ELSE LET r == prefixes_insert(m, order[n])
         IN  IF r.panic THEN r ELSE prefixes_from(r.ps, order, n + 1)

\* Every outcome of prefixes for the id set S, over every order of visiting
\* the ids and of inverting ps: a run-time panic, or the mapping returned.
Panicked == [panic |-> TRUE, prefixes |-> EmptyMap]

prefixes(S) ==
    UNION {LET r == prefixes_from(EmptyMap, o, 1)
           IN  IF r.panic THEN {Panicked}
               ELSE {[panic |-> FALSE, prefixes |-> sw] : sw \in swapped(r.ps)}
           : o \in Orders(S)}

(***************************************************************************)
(* getItem (src/t.go:223-247)                                              *)
(***************************************************************************)
\* getItem without the exact-match pass of lines 235-242
getItem_no_exact_match(t, prefix) ==
    LET matched == {key \in DOMAIN t : HasPrefix(key, prefix)}
    IN  IF Cardinality(matched) = 1
        THEN [kind |-> "ok", key |-> CHOOSE key \in matched : TRUE]
        ELSE IF Cardinality(matched) = 0
        THEN [kind |-> "UnknownPrefix", key |-> prefix]
        ELSE [kind |-> "AmbiguousPrefix", key |-> prefix]

\* getItem returning a matching task whenever there is one
getItem_any_match(t, prefix) ==
    LET matched == {key \in DOMAIN t : HasPrefix(key, prefix)}
    IN  IF Cardinality(matched) = 0
        THEN [kind |-> "UnknownPrefix", key |-> prefix]
        ELSE [kind |-> "ok",
              key |-> IF prefix \in matched THEN prefix ELSE CHOOSE key \in matched : TRUE]

\* The outcome is [kind |-> "ok", key |-> the key of the task returned], or
\* [kind |-> the type of the panic, key |-> the reference it carries].
getItem(t, prefix) ==
    LET matched == {key \in DOMAIN t : HasPrefix(key, prefix)}
        exact == {key \in DOMAIN t : key = prefix}
    IN  IF Cardinality(matched) = 1
        THEN [kind |-> "ok", key |-> CHOOSE key \in matched : TRUE]
        ELSE IF Cardinality(matched) = 0
        THEN [kind |-> "UnknownPrefix", key |-> prefix]
        ELSE IF Cardinality(exact) = 1
        THEN [kind |-> "ok", key |-> CHOOSE key \in exact : TRUE]
        ELSE [kind |-> "AmbiguousPrefix", key |-> prefix]

(***************************************************************************)
(* Tasks.  A task is a Go map[string]string: a function from keys to       *)
(* values, both strings.                                                   *)
(***************************************************************************)
ID == <<"i", "d">>

TEXT == <<"t", "e", "x", "t">>

PREFIX == <<"p", "r", "e", "f", "i", "x">>

\* strings.TrimSpace
RECURSIVE TrimLeft(_)
TrimLeft(s) == IF s /= << >> /\ Head(s) = " " THEN TrimLeft(Tail(s)) ELSE s

RECURSIVE TrimRight(_)
TrimRight(s) ==
    IF s /= << >> /\ s[Len(s)] = " " THEN TrimRight(SubSeq(s, 1, Len(s) - 1)) ELSE s

TrimSpace(s) == TrimRight(TrimLeft(s))

\* strings.Index(s, sep), counted from 0 as in Go; -1 when sep is not in s
Index(s, sep) ==
    LET at == {i \in 0..(Len(s) - Len(sep)) : SubSeq(s, i + 1, i + Len(sep)) = sep}
    IN  IF at = {} THEN -1 ELSE Min(at)

\* strings.Replace(s, old, new, n): the first n occurrences of old (all of
\* them when n < 0) are replaced by new; n = 0 returns s.  An empty old
\* matches before the first character and after each character.
RECURSIVE ReplaceEmpty(_, _, _)
ReplaceEmpty(s, new, n) ==
    IF n = 0 THEN s
    ELSE IF s = << >> THEN new
    ELSE new \o <<Head(s)>> \o ReplaceEmpty(Tail(s), new, n - 1)

RECURSIVE ReplaceFound(_, _, _, _)
ReplaceFound(s, old, new, n) ==
    IF n = 0 \/ Index(s, old) = -1 THEN s
    ELSE LET i == Index(s, old)
         IN  SubSeq(s, 1, i) \o new
               \o ReplaceFound(SubSeq(s, i + Len(old) + 1, Len(s)), old, new, n - 1)

Replace(s, old, new, n) ==
    IF old = new \/ n = 0 THEN s
    ELSE IF old = << >> THEN ReplaceEmpty(s, new, n)
    ELSE ReplaceFound(s, old, new, n)

(***************************************************************************)
(* hash (src/t.go:27-31).  SHA-1 is replaced by a small digest with the    *)
(* properties the program uses: a pure function of the text that yields    *)
(* HashLen lower-case hexadecimal digits.                                  *)
(***************************************************************************)
HexDigits == <<"0", "1", "2", "3", "4", "5", "6", "7", "8", "9", "a", "b", "c", "d", "e", "f">>

Alphabet == <<"a", "b", "s", "/", " ", "|", ":", ",", "#">>

CharCode(c) == CHOOSE i \in DOMAIN Alphabet : Alphabet[i] = c

RECURSIVE Pow16(_)
Pow16(n) == IF n = 0 THEN 1 ELSE 16 * Pow16(n - 1)

RECURSIVE Digest(_, _)
Digest(text, acc) ==
    IF text = << >> THEN acc
    ELSE Digest(Tail(text), (acc * 31 + CharCode(Head(text))) % Pow16(HashLen))

hash(text) ==
    LET d == Digest(text, 0)
    IN  [i \in 1..HashLen |-> HexDigits[((d \div Pow16(HashLen - i)) % 16) + 1]]

(***************************************************************************)
(* TaskDict operations (src/t.go:250-293).  Each yields                    *)
(* [panic |-> the value panicked with, "none" when it returns,             *)
(*  value |-> the reference a prefix panic carries,                        *)
(*  tasks, done |-> the partitions when it ends].                          *)
(***************************************************************************)
Returned(t, d) == [panic |-> "none", value |-> EmptyString, tasks |-> t, done |-> d]

Panic(kind, value, t, d) == [panic |-> kind, value |-> value, tasks |-> t, done |-> d]

add_task(t, d, text) ==
    LET task_id == hash(text)
    IN  Returned(Put(t, task_id, Put(Put(EmptyMap, ID, task_id), TEXT, text)), d)

\* Lines 264-268: the value of the variable text that the block declares
\* (text := ... shadows the parameter).  When the stripped text holds no
\* "/", i is -1 and text[:i] is a run-time panic.
substitution(old_text, text) ==
    LET stripped == TrimSpace(IF Head(text) = "s"
                              THEN SubSeq(text, 3, Len(text))
                              ELSE SubSeq(text, 2, Len(text)))
        i == Index(stripped, <<"/">>)
    IN  IF i = -1 THEN [panic |-> TRUE, text |-> old_text]
        ELSE [panic |-> FALSE,
              text |-> Replace(old_text, SubSeq(stripped, 1, i),
                               SubSeq(stripped, i + 2, Len(stripped)), 0)]

\* Lines 263-270: the text edit_task stores.  The block's text goes out of
\* scope at line 269, so line 270 stores the parameter as it was given.
edit_text(old_text, text) ==
    IF HasPrefix(text, <<"s", "/">>) \/ HasPrefix(text, <<"/">>)
    THEN [panic |-> substitution(old_text, text).panic, text |-> text]
    ELSE [panic |-> FALSE, text |-> text]

\* edit_task deriving the id again from the new text
edit_task_rehash(t, d, prefix, text) ==
    LET got == getItem(t, prefix)
    IN  IF got.kind /= "ok" THEN Panic(got.kind, got.key, t, d)
        ELSE LET new == edit_text(t[got.key][TEXT], text)
             IN  IF new.panic THEN Panic("slice bounds out of range", EmptyString, t, d)
                 ELSE Returned(Put(Delete(t, got.key), hash(new.text),
                                   Put(Put(EmptyMap, ID, hash(new.text)), TEXT, new.text)), d)

edit_task(t, d, prefix, text) ==
    LET got == getItem(t, prefix)
    IN  IF got.kind /= "ok" THEN Panic(got.kind, got.key, t, d)
        ELSE LET new == edit_text(t[got.key][TEXT], text)
             IN  IF new.panic THEN Panic("slice bounds out of range", EmptyString, t, d)
                 ELSE Returned([t EXCEPT ![got.key] = Put(@, TEXT, new.text)], d)

\* finish_task that leaves the task in the active partition
finish_task_no_delete(t, d, prefix) ==
    LET got == getItem(t, prefix)
    IN  IF got.kind /= "ok" THEN Panic(got.kind, got.key, t, d)
        ELSE LET id == t[got.key][ID]
             IN  IF id \in DOMAIN t
                 THEN Returned(t, Put(d, t[id][ID], t[id]))
                 ELSE Returned(t, d)

finish_task(t, d, prefix) ==
    LET got == getItem(t, prefix)
    IN  IF got.kind /= "ok" THEN Panic(got.kind, got.key, t, d)
        ELSE LET id == t[got.key][ID]
             IN  IF id \in DOMAIN t
                 THEN Returned(Delete(t, id), Put(d, t[id][ID], t[id]))
                 ELSE Returned(t, d)

\* remove_task that deletes the id from the done partition as well
remove_task_both(t, d, prefix) ==
    LET got == getItem(t, prefix)
    IN  IF got.kind /= "ok" THEN Panic(got.kind, got.key, t, d)
        ELSE Returned(Delete(t, t[got.key][ID]), Delete(d, t[got.key][ID]))

remove_task(t, d, prefix) ==
    LET got == getItem(t, prefix)
    IN  IF got.kind /= "ok" THEN Panic(got.kind, got.key, t, d)
        ELSE Returned(Delete(t, t[got.key][ID]), d)

(***************************************************************************)
(* tasklines_from_tasks and write (src/t.go:78-99, 339-368).  A file is    *)
(* [exists |-> BOOLEAN, lines |-> the set of lines it holds]; the order of *)
(* the lines, which is the iteration order of the map, is not kept.        *)
(***************************************************************************)
Absent == [exists |-> FALSE, lines |-> {}]

Kinds == {"tasks", "done"}

\* Lines 88-94: "k:v" for the keys other than "text", joined by ", ", in
\* the order the range loop visits them.
RECURSIVE meta_str(_, _, _)
meta_str(task, order, n) ==
    IF n > Len(order) THEN << >>
    ELSE (IF n > 1 THEN <<",", " ">> ELSE << >>)
           \o order[n] \o <<":">> \o task[order[n]] \o meta_str(task, order, n + 1)

\* Line 95, for every order of the keys.
tasklines_of(task) ==
    {(IF TEXT \in DOMAIN task THEN task[TEXT] ELSE << >>)
        \o <<" ", "|", " ">> \o meta_str(task, o, 1) \o <<"\n">>
     : o \in Orders((DOMAIN task) \ {TEXT})}

\* The sets of lines tasklines_from_tasks can return for a partition.
tasklines_from_tasks(part) ==
    {{pick[key] : key \in DOMAIN part} :
        pick \in {f \in [DOMAIN part -> UNION {tasklines_of(part[key]) : key \in DOMAIN part}] :
                    \A key \in DOMAIN part : f[key] \in tasklines_of(part[key])}}

\* Lines 342-366 for one kind: the file is written when the partition has
\* tasks or delete_if_empty is off; otherwise it is removed, and
\* fileInfo.IsDir() is a nil dereference when the file does not exist.
write_kind(fs, kind, part, delete_if_empty) ==
    IF Cardinality(DOMAIN part) > 0 \/ ~delete_if_empty
    THEN {[panic |-> FALSE, files |-> [fs EXCEPT ![kind] = [exists |-> TRUE, lines |-> ls]]]
          : ls \in tasklines_from_tasks(part)}
    ELSE IF ~fs[kind].exists
    THEN {[panic |-> TRUE, files |-> fs]}
    ELSE {[panic |-> FALSE, files |-> [fs EXCEPT ![kind] = Absent]]}

RECURSIVE write_from(_, _, _, _, _, _)
write_from(fs, t, d, delete_if_empty, order, n) ==
    IF n > Len(order) THEN {[panic |-> FALSE, files |-> fs]}
    ELSE UNION {IF r.panic THEN {r}
                ELSE write_from(r.files, t, d, delete_if_empty, order, n + 1)
                : r \in write_kind(fs, order[n],
                                   IF order[n] = "tasks" THEN t ELSE d, delete_if_empty)}

\* Every outcome of write, over the orders in which filemap is visited.
write(fs, t, d, delete_if_empty) ==
    UNION {write_from(fs, t, d, delete_if_empty, o, 1) : o \in Orders(Kinds)}

(***************************************************************************)
(* main (src/t.go:423-460): one command on the TaskDict, then write.       *)
(* A panic is recovered by the deferred function, which reports it; err    *)
(* holds what was reported.                                                *)
(***************************************************************************)
AddTexts == {<<"a">>, <<"b">>}

EditTexts == {<<"a", "b">>, <<"s", "/", "a", "/", "b">>, <<"/", "a">>, EmptyString}

UnknownRef == <<"f">>

\* the references tried: the leading substrings of the ids in use, and one
\* that no id starts with
Refs == {Slice(hash(text), n) : text \in AddTexts, n \in 1..HashLen} \cup {UnknownRef}

NoError == [kind |-> "none", value |-> EmptyString]

\* a TaskList whose tasks slice is nil (src/unnamed/part_001:19-21)
NoTaskList == [nil |-> TRUE, tasks |-> << >>]

\* The branches of lines 441-452: the operation, then write unless the
\* operation panicked.
run(op, ref, text, r, delete_if_empty) ==
    /\ last' = [op |-> op, ref |-> ref, text |-> text]
    /\ tasks' = r.tasks
    /\ done' = r.done
    /\ IF r.panic /= "none"
       THEN /\ err' = [kind |-> r.panic, value |-> r.value]
            /\ files' = files
       ELSE \E w \in write(files, r.tasks, r.done, delete_if_empty) :
              /\ files' = w.files
              /\ err' = IF w.panic
                        THEN [kind |-> "nil pointer dereference", value |-> EmptyString]
                        ELSE NoError
    /\ UNCHANGED <<ids, ps, k, pc, ps_swapped, picked>>
    /\ UNCHANGED <<opt, lines, decoded, tasklist>>

main_finish ==
    \E ref \in Refs, delete_if_empty \in BOOLEAN :
        /\ pc = "main"
        /\ run("finish", ref, EmptyString, finish_task(tasks, done, ref),
               delete_if_empty)

main_remove ==
    \E ref \in Refs, delete_if_empty \in BOOLEAN :
        /\ pc = "main"
        /\ run("remove", ref, EmptyString, remove_task(tasks, done, ref),
               delete_if_empty)

main_edit ==
    \E ref \in Refs, text \in EditTexts, delete_if_empty \in BOOLEAN :
        /\ pc = "main"
        /\ run("edit", ref, text, edit_task(tasks, done, ref, text), delete_if_empty)

\* Without -f, -r or -e the text decides (lines 450-459): a non-empty text
\* is added and the files written; with an empty text main lists the tasks,
\* which changes nothing and reports nothing.
main_add ==
    \E text \in AddTexts \cup {EmptyString}, delete_if_empty \in BOOLEAN :
        /\ pc = "main"
        /\ IF text /= EmptyString
           THEN run("add", EmptyString, text, add_task(tasks, done, text),
                    delete_if_empty)
           ELSE /\ last' = [op |-> "add", ref |-> EmptyString, text |-> text]
                /\ err' = NoError
                /\ UNCHANGED <<tasks, done, files>>
                /\ UNCHANGED <<ids, ps, k, pc, ps_swapped, picked>>
                /\ UNCHANGED <<opt, lines, decoded, tasklist>>

\* NewTaskDict with no task files (lines 173-175), before any command.
Init ==
    /\ tasks = EmptyMap
    /\ done = EmptyMap
    /\ files = [kind \in Kinds |-> Absent]
    /\ last = [op |-> "none", ref |-> EmptyString, text |-> EmptyString]
    /\ err = NoError
    /\ ids = << >>
    /\ ps = EmptyMap
    /\ k = 0
    /\ pc = "main"
    /\ ps_swapped = EmptyMap
    /\ picked = [kind |-> "none", key |-> EmptyString]
    /\ opt = FALSE
    /\ lines = {}
    /\ decoded = EmptyMap
    /\ tasklist = NoTaskList

Next ==
    \/ main_add
    \/ main_edit
    \/ main_finish
    \/ main_remove

Spec == Init /\ [][Next]_vars

(***************************************************************************)
(* Listing and resolving on a loaded collection.                           *)
(*                                                                         *)
(* NewTaskDict stores every task of a task file under its "id" entry       *)
(* (line 209), and a line `text | id:<id>` carries any id, so the ids of   *)
(* a loaded partition are arbitrary distinct strings, equal-length ids as  *)
(* hash makes them among them.  print_list (lines 306-310) labels a        *)
(* partition with the result of prefixes; getItem resolves a reference.    *)
(***************************************************************************)
IdChars == {"0", "1"}

IdStrings == StringsUpTo(IdChars, MaxIdLen)

\* the id sets of at most MaxIds ids
IdSets == {Range(o) : o \in UNION {[1..n -> IdStrings] : n \in 0..MaxIds}}

loaded(S) == [id \in S |-> Put(Put(EmptyMap, ID, id), TEXT, <<"a">>)]

InitList ==
    /\ tasks \in {loaded(S) : S \in IdSets}
    /\ done = EmptyMap
    /\ files = [kind \in Kinds |-> Absent]
    /\ last = [op |-> "none", ref |-> EmptyString, text |-> EmptyString]
    /\ err = NoError
    /\ ids = << >>
    /\ ps = EmptyMap
    /\ k = 0
    /\ pc = "loaded"
    /\ ps_swapped = EmptyMap
    /\ picked = [kind |-> "none", key |-> EmptyString]
    /\ opt = FALSE
    /\ lines = {}
    /\ decoded = EmptyMap
    /\ tasklist = NoTaskList

\* Lines 109-113: the ids are collected in the order the range loop visits
\* the tasks, and ps starts empty.
prefixes_collect ==
    /\ pc = "loaded"
    /\ \E o \in Orders(DOMAIN tasks) : ids' = [i \in DOMAIN o |-> tasks[o[i]][ID]]
    /\ ps' = EmptyMap
    /\ k' = 1
    /\ pc' = "insert"
    /\ last' = [op |-> "list", ref |-> EmptyString, text |-> EmptyString]
    /\ UNCHANGED <<tasks, done, files, err, ps_swapped, picked>>
    /\ UNCHANGED <<opt, lines, decoded, tasklist>>

\* Lines 115-142, one id.
prefixes_next_id ==
    /\ pc = "insert"
    /\ k <= Len(ids)
    /\ LET r == prefixes_insert(ps, ids[k])
       IN  /\ ps' = r.ps
           /\ IF r.panic
              THEN /\ pc' = "panic"
                   /\ err' = [kind |-> "slice bounds out of range", value |-> EmptyString]
                   /\ k' = k
              ELSE /\ pc' = pc
                   /\ err' = err
                   /\ k' = k + 1
    /\ UNCHANGED <<tasks, done, files, last, ids, ps_swapped, picked>>
    /\ UNCHANGED <<opt, lines, decoded, tasklist>>

\* Lines 143-148.
prefixes_return ==
    /\ pc = "insert"
    /\ k > Len(ids)
    /\ ps_swapped' \in swapped(ps)
    /\ pc' = "returned"
    /\ UNCHANGED <<tasks, done, files, last, err, ids, ps, k, picked>>
    /\ UNCHANGED <<opt, lines, decoded, tasklist>>

\* Lines 307-309: tasks[task_id]["prefix"] = prefix.
print_list ==
    /\ pc = "returned"
    /\ tasks' = [key \in DOMAIN tasks |->
                    IF key \in DOMAIN ps_swapped
                    THEN Put(tasks[key], PREFIX, ps_swapped[key])
                    ELSE tasks[key]]
    /\ pc' = "listed"
    /\ UNCHANGED <<done, files, last, err, ids, ps, k, ps_swapped, picked>>
    /\ UNCHANGED <<opt, lines, decoded, tasklist>>

\* getItem on the loaded partition, as edit_task, finish_task and
\* remove_task call it.
resolve ==
    /\ pc = "loaded"
    /\ \E ref \in IdStrings :
         /\ picked' = getItem(tasks, ref)
         /\ last' = [op |-> "resolve", ref |-> ref, text |-> EmptyString]
    /\ pc' = "resolved"
    /\ UNCHANGED <<tasks, done, files, err, ids, ps, k, ps_swapped>>
    /\ UNCHANGED <<opt, lines, decoded, tasklist>>

NextList ==
    \/ prefixes_collect
    \/ prefixes_next_id
    \/ prefixes_return
    \/ print_list
    \/ resolve

ListSpec == InitList /\ [][NextList]_vars

(***************************************************************************)
(* Properties of prefixes and getItem, under ListSpec                      *)
(***************************************************************************)
IdSet == Range(ids)

EqualLength(S) == \A a, b \in S : Len(a) = Len(b)

\* prefixes has ended, by returning or by a run-time panic
PrefixesEnded == pc \in {"returned", "panic"} /\ Len(ids) >= 1

\* the lengths at which id's leading substring is no leading substring of
\* another id of S
UniqueLengths(id, S) ==
    {n \in 1..Len(id) : \A other \in S \ {id} : ~HasPrefix(other, Slice(id, n))}

\* C1: for n >= 1 distinct equal-length ids, prefixes returns a mapping with
\* one entry per id, each value a non-empty leading substring of its id, and
\* no value equal to or a leading substring of another id's value, in every
\* order of visiting the ids.
C1_PrefixesUniqueLeading ==
    (PrefixesEnded /\ EqualLength(IdSet)) =>
        /\ pc = "returned"
        /\ DOMAIN ps_swapped = IdSet
        /\ \A id \in IdSet :
             /\ ps_swapped[id] /= EmptyString
             /\ HasPrefix(id, ps_swapped[id])
        /\ \A a, b \in IdSet : a /= b => ~HasPrefix(ps_swapped[b], ps_swapped[a])

\* C2: the prefix of an id is its shortest leading substring that is not a
\* leading substring of any other id in the set.
C2_PrefixesShortest ==
    PrefixesEnded =>
        /\ pc = "returned"
        /\ \A id \in IdSet :
             UniqueLengths(id, IdSet) /= {} =>
                /\ id \in DOMAIN ps_swapped
                /\ ps_swapped[id] = Slice(id, Min(UniqueLengths(id, IdSet)))

\* the outcome of the run of prefixes that has ended
Outcome ==
    IF pc = "panic" THEN Panicked ELSE [panic |-> FALSE, prefixes |-> ps_swapped]

\* C9: for a fixed id set, every order of visiting the ids yields the same
\* id-to-prefix mapping (the same outcome as the run that has ended).
C9_PrefixesOrderIndependent ==
    PrefixesEnded => \A other \in prefixes(IdSet) : other = Outcome

\* C10: when one id of the set is a leading substring of another, both are
\* mapped to their full id, whatever the other ids and the order.
C10_SubstringIdsGetFullId ==
    PrefixesEnded =>
        \A a, b \in IdSet :
            (a /= b /\ HasPrefix(b, a)) =>
                /\ pc = "returned"
                /\ a \in DOMAIN ps_swapped /\ ps_swapped[a] = a
                /\ b \in DOMAIN ps_swapped /\ ps_swapped[b] = b

\* C3: getItem(ref) returns the task whose id equals ref whenever ref is the
\* full id of a task, even when ref is a leading substring of other ids; and
\* when exactly one id has ref as a leading substring, it returns that task.
C3_GetItemResolves ==
    pc = "resolved" =>
        /\ last.ref \in DOMAIN tasks =>
              /\ picked.kind = "ok"
              /\ tasks[picked.key][ID] = last.ref
        /\ \A key \in DOMAIN tasks :
              (\A other \in DOMAIN tasks : HasPrefix(other, last.ref) <=> other = key) =>
                 /\ picked.kind = "ok"
                 /\ picked.key = key

\* a full id that is also a leading substring of another id was resolved
C3_Witness ==
    /\ pc = "resolved"
    /\ last.ref \in DOMAIN tasks
    /\ \E other \in DOMAIN tasks : other /= last.ref /\ HasPrefix(other, last.ref)
    /\ picked.kind = "ok"

(***************************************************************************)
(* Properties of the commands, under Spec                                  *)
(***************************************************************************)
\* the operation of the last command returned (write may still have panicked)
Succeeded(e) == e.kind \in {"none", "nil pointer dereference"}

\* the active ids that start with ref
Matching(ref) == {key \in DOMAIN tasks : HasPrefix(key, ref)}

\* C4: edit, finish or remove with a ref that no active id starts with fails
\* with UnknownPrefix carrying ref, and with a ref that two or more active
\* ids start with and none equals fails with AmbiguousPrefix carrying ref;
\* both leave the partitions and the task files unchanged.
C4_BadRefFailsWithoutEffect ==
    [][(last'.op \in {"edit", "finish", "remove"}) =>
         LET ref == last'.ref
             unknown == Matching(ref) = {}
             ambiguous == Cardinality(Matching(ref)) >= 2 /\ ref \notin DOMAIN tasks
         IN  /\ unknown => err' = [kind |-> "UnknownPrefix", value |-> ref]
             /\ ambiguous => err' = [kind |-> "AmbiguousPrefix", value |-> ref]
             /\ (unknown \/ ambiguous) =>
                    (tasks' = tasks /\ done' = done /\ files' = files)]_vars

\* an ambiguous reference was refused while task files were on disk
C4_Witness ==
    /\ last.op \in {"edit", "finish", "remove"}
    /\ err = [kind |-> "AmbiguousPrefix", value |-> last.ref]
    /\ Cardinality(Matching(last.ref)) >= 2
    /\ files["tasks"].exists

\* C5: after any sequence of add, edit, finish and remove from an empty
\* collection, no id is in both the active and the done partition.
C5_PartitionsDisjoint == (DOMAIN tasks) \cap (DOMAIN done) = {}

\* C6: after edit(ref, newText) the edited task is stored under the same key,
\* its "id" entry is what it was, and ref still resolves to it.
C6_EditKeepsId ==
    [][(last'.op = "edit" /\ Succeeded(err')) =>
         LET got == getItem(tasks, last'.ref)
         IN  /\ got.kind = "ok"
             /\ DOMAIN tasks' = DOMAIN tasks
             /\ tasks'[got.key][ID] = tasks[got.key][ID]
             /\ tasks'[got.key][ID] = got.key
             /\ getItem(tasks', last'.ref) = got]_vars

\* a plain edit gave a task a text whose hash is not the task's id
C6_Witness ==
    /\ last.op = "edit"
    /\ err = NoError
    /\ \E key \in DOMAIN tasks :
         /\ HasPrefix(key, last.ref)
         /\ tasks[key][TEXT] = last.text
         /\ hash(last.text) /= tasks[key][ID]

\* C7: after a successful finish_task(ref) the resolved id is absent from
\* active and present in done with the text and metadata it had; every other
\* active task is unchanged.
C7_FinishMovesTask ==
    [][(last'.op = "finish" /\ Succeeded(err')) =>
         LET got == getItem(tasks, last'.ref)
             id == tasks[got.key][ID]
         IN  /\ got.kind = "ok"
             /\ id \notin DOMAIN tasks'
             /\ id \in DOMAIN done'
             /\ done'[id] = tasks[got.key]
             /\ DOMAIN tasks' = (DOMAIN tasks) \ {id}
             /\ \A other \in DOMAIN tasks' : tasks'[other] = tasks[other]]_vars

\* a task was finished while another stayed active
C7_Witness ==
    /\ last.op = "finish"
    /\ err = NoError
    /\ DOMAIN done /= {}
    /\ DOMAIN tasks /= {}

\* C8: after a successful remove_task(ref) the resolved id is absent from
\* active, done is what it was, and every other active task is unchanged.
C8_RemoveOnlyFromActive ==
    [][(last'.op = "remove" /\ Succeeded(err')) =>
         LET got == getItem(tasks, last'.ref)
             id == tasks[got.key][ID]
         IN  /\ got.kind = "ok"
             /\ id \notin DOMAIN tasks'
             /\ done' = done
             /\ DOMAIN tasks' = (DOMAIN tasks) \ {id}
             /\ \A other \in DOMAIN tasks' : tasks'[other] = tasks[other]]_vars

\* a task was removed while the done partition held a task and another task
\* stayed active
C8_Witness ==
    /\ last.op = "remove"
    /\ err = NoError
    /\ DOMAIN done /= {}
    /\ DOMAIN tasks /= {}

\* the <find> and <replace> parts of a substitution text s/<find>/<replace>
\* or /<find>/<replace>, as edit_task cuts them out (lines 264-267)
substitution_parts(text) ==
    LET stripped == TrimSpace(IF Head(text) = "s" THEN SubSeq(text, 3, Len(text))
                                                  ELSE SubSeq(text, 2, Len(text)))
        i == Index(stripped, <<"/">>)
    IN  [find |-> SubSeq(stripped, 1, i), repl |-> SubSeq(stripped, i + 2, Len(stripped))]

\* C11: a successful edit whose text is s/<find>/<replace> or
\* /<find>/<replace>, on a task whose text contains <find>, leaves the task's
\* text equal to its previous text with the first occurrence, or every
\* occurrence, of <find> replaced by <replace>.
C11_SubstitutionReplaces ==
    [][(/\ last'.op = "edit"
        /\ Succeeded(err')
        /\ (HasPrefix(last'.text, <<"s", "/">>) \/ HasPrefix(last'.text, <<"/">>))
        /\ getItem(tasks, last'.ref).kind = "ok"
        /\ Index(tasks[getItem(tasks, last'.ref).key][TEXT],
                 substitution_parts(last'.text).find) /= -1) =>
         LET key == getItem(tasks, last'.ref).key
             old == tasks[key][TEXT]
             parts == substitution_parts(last'.text)
         IN  tasks'[key][TEXT] \in {Replace(old, parts.find, parts.repl, 1),
                                    Replace(old, parts.find, parts.repl, -1)}]_vars

\* C12: an add or edit command whose trimmed text is empty is rejected: it
\* reports a failure and leaves both partitions, and with them every task's
\* text, unchanged.
C12_EmptyTextRejected ==
    [][(last'.op \in {"add", "edit"} /\ last'.text = EmptyString) =>
         /\ err' /= NoError
         /\ tasks' = tasks
         /\ done' = done]_vars

(***************************************************************************)
(* task_from_taskline and the reading loop of NewTaskDict                  *)
(* (src/t.go:48-75, 203-212).                                              *)
(***************************************************************************)
\* strings.Contains(s, substr)
Contains(s, substr) == Index(s, substr) /= -1

\* strings.LastIndex(s, sep), counted from 0; -1 when sep is not in s
LastIndex(s, sep) ==
    LET at == {i \in 0..(Len(s) - Len(sep)) : SubSeq(s, i + 1, i + Len(sep)) = sep}
    IN  IF at = {} THEN -1 ELSE CHOOSE x \in at : \A y \in at : y <= x

\* strings.Split(s, sep) for a non-empty sep
RECURSIVE Split(_, _)
Split(s, sep) ==
    LET i == Index(s, sep)
    IN  IF i = -1 THEN <<s>>
        ELSE <<SubSeq(s, 1, i)>> \o Split(SubSeq(s, i + Len(sep) + 1, Len(s)), sep)

\* Lines 57-68: every piece of the metadata sets task[label] = data, the
\* later piece winning; a piece without ":" sets the label to "".
RECURSIVE meta_into(_, _, _)
meta_into(task, pieces, n) ==
    IF n > Len(pieces) THEN task
    ELSE LET metaSplit == Split(pieces[n], <<":">>)
             label == TrimSpace(metaSplit[1])
             data == IF Len(metaSplit) >= 2 THEN TrimSpace(metaSplit[2]) ELSE EmptyString
         IN  meta_into(Put(task, label, data), pieces, n + 1)

\* [nil |-> TRUE] for a comment line, otherwise the task the line holds
task_from_taskline(taskline) ==
    IF HasPrefix(TrimSpace(taskline), <<"#">>)
    THEN [nil |-> TRUE, task |-> EmptyMap]
    ELSE IF Contains(taskline, <<"|">>)
    THEN LET sepIndex == LastIndex(taskline, <<"|">>)
             text == SubSeq(taskline, 1, sepIndex)
             meta == SubSeq(taskline, sepIndex + 2, Len(taskline))
         IN  [nil |-> FALSE,
              task |-> meta_into(Put(EmptyMap, TEXT, TrimSpace(text)),
                                 Split(TrimSpace(meta), <<",">>), 1)]
    ELSE LET text == TrimSpace(taskline)
         IN  [nil |-> FALSE, task |-> Put(Put(EmptyMap, ID, hash(text)), TEXT, text)]

\* Line 203: the non-empty pieces of the file's content split at "\n".  The
\* lines written by write end in "\n" and are joined by "\n" (line 355).
fileLines(ls) == (UNION {Range(Split(l, <<"\n">>)) : l \in ls}) \ {EmptyString}

\* Lines 203-212 for the lines in one order: tasks[task["id"]] = task for
\* every line that is not a comment; a task without "id" is stored under "".
RECURSIVE load_lines(_, _, _)
load_lines(part, order, n) ==
    IF n > Len(order) THEN part
    ELSE LET got == task_from_taskline(TrimSpace(order[n]))
             task_id == IF ID \in DOMAIN got.task THEN got.task[ID] ELSE EmptyString
         IN  load_lines(IF got.nil THEN part ELSE Put(part, task_id, got.task),
                        order, n + 1)

\* The partitions that reading a file of the lines ls can give; the order
\* of the lines in the file is not kept by the model, so every order is one.
load_file(part, ls) == {load_lines(part, o, 1) : o \in Orders(fileLines(ls))}

(***************************************************************************)
(* CodecSpec: a partition is built by add_task, encoded by                 *)
(* tasklines_from_tasks as write does, and decoded as NewTaskDict does.    *)
(***************************************************************************)
MaxCodecTasks == 3

CodecTexts ==
    {<<"a">>, <<"a", " ", "b">>, <<"a", "|", "b">>, <<"a", ",", "b">>,
     <<"a", ":", "b">>, <<"#", "a">>}

InitCodec ==
    /\ tasks = EmptyMap
    /\ done = EmptyMap
    /\ files = [kind \in Kinds |-> Absent]
    /\ last = [op |-> "none", ref |-> EmptyString, text |-> EmptyString]
    /\ err = NoError
    /\ ids = << >>
    /\ ps = EmptyMap
    /\ k = 0
    /\ pc = "codec"
    /\ ps_swapped = EmptyMap
    /\ picked = [kind |-> "none", key |-> EmptyString]
    /\ opt = FALSE
    /\ lines = {}
    /\ decoded = EmptyMap
    /\ tasklist = NoTaskList

codec_add ==
    \E text \in CodecTexts :
        /\ pc = "codec"
        /\ Cardinality(DOMAIN tasks) < MaxCodecTasks
        /\ tasks' = add_task(tasks, done, text).tasks
        /\ UNCHANGED <<done, files, last, err, ids, ps, k, pc, ps_swapped, picked>>
        /\ UNCHANGED <<opt, lines, decoded, tasklist>>

codec_encode ==
    /\ pc = "codec"
    /\ lines' \in tasklines_from_tasks(tasks)
    /\ pc' = "encoded"
    /\ UNCHANGED <<tasks, done, files, last, err, ids, ps, k, ps_swapped, picked>>
    /\ UNCHANGED <<opt, decoded, tasklist>>

codec_decode ==
    /\ pc = "encoded"
    /\ decoded' \in load_file(EmptyMap, lines)
    /\ pc' = "decoded"
    /\ UNCHANGED <<tasks, done, files, last, err, ids, ps, k, ps_swapped, picked>>
    /\ UNCHANGED <<opt, lines, tasklist>>

NextCodec == codec_add \/ codec_encode \/ codec_decode

CodecSpec == InitCodec /\ [][NextCodec]_vars

\* C13: decoding the lines that encode a partition built by add gives the
\* partition back: the same ids, each with the same text and metadata.
C13_DecodeEncodeRoundTrip == pc = "decoded" => decoded = tasks

(***************************************************************************)
(* WriteSpec: write(delete_if_empty) on a TaskDict whose partitions hold   *)
(* tasks made by add_task, in a directory where each task file is absent   *)
(* or holds what an earlier write left.                                    *)
(***************************************************************************)
\* the partition that add_task builds from the texts S (lines 250-253)
partition_of(S) ==
    [key \in {hash(text) : text \in S} |->
        Put(Put(EmptyMap, ID, key), TEXT, CHOOSE text \in S : hash(text) = key)]

\* the task file states before write: no file, or the lines of an earlier
\* write
FilesBefore ==
    {Absent} \cup {[exists |-> TRUE, lines |-> ls] :
                     ls \in UNION {tasklines_from_tasks(partition_of(S)) : S \in SUBSET AddTexts}}

\* tasksForKind (lines 161-169) on the model's two partitions
tasksForKind(kind) == IF kind = "tasks" THEN tasks ELSE done

InitWrite ==
    /\ tasks \in {partition_of(S) : S \in SUBSET AddTexts}
    /\ done \in {partition_of(S) : S \in SUBSET AddTexts}
    /\ files \in [Kinds -> FilesBefore]
    /\ opt \in BOOLEAN
    /\ last = [op |-> "none", ref |-> EmptyString, text |-> EmptyString]
    /\ err = NoError
    /\ ids = << >>
    /\ ps = EmptyMap
    /\ k = 0
    /\ pc = "write"
    /\ ps_swapped = EmptyMap
    /\ picked = [kind |-> "none", key |-> EmptyString]
    /\ lines = {}
    /\ decoded = EmptyMap
    /\ tasklist = NoTaskList

\* td.write(options.deleteIfEmpty); a panic is reported by main's deferred
\* function (lines 429-439)
write_files ==
    /\ pc = "write"
    /\ \E w \in write(files, tasks, done, opt) :
         /\ files' = w.files
         /\ err' = IF w.panic
                   THEN [kind |-> "nil pointer dereference", value |-> EmptyString]
                   ELSE NoError
    /\ pc' = "written"
    /\ UNCHANGED <<tasks, done, last, ids, ps, k, ps_swapped, picked>>
    /\ UNCHANGED <<opt, lines, decoded, tasklist>>

NextWrite == write_files

WriteSpec == InitWrite /\ [][NextWrite]_vars

\* C14: after write(delete_if_empty), for each of the two partitions: when
\* it has no task its file is absent if delete_if_empty is on and is an
\* empty file otherwise; when it has tasks its file holds the lines of all
\* of them.  This holds whether or not the file existed before and whatever
\* the other partition holds.
C14_WriteEachPartition ==
    pc = "written" =>
        \A kind \in Kinds :
            IF DOMAIN tasksForKind(kind) = {}
            THEN IF opt THEN ~files[kind].exists
                 ELSE files[kind] = [exists |-> TRUE, lines |-> {}]
            ELSE /\ files[kind].exists
                 /\ files[kind].lines \in tasklines_from_tasks(tasksForKind(kind))

(***************************************************************************)
(* TaskList (src/unnamed/part_001:14-74): the list of tasks of the earlier *)
(* revision of the program.  A task is its description; the time it was    *)
(* updated is not read by Add or Finish.  tasklist.nil tells whether the   *)
(* tasks slice is nil, as it is in TaskList{}.                             *)
(***************************************************************************)
MaxListLen == 3

Descriptions == {"foo", "bar"}

\* the task ids tried: every position of the longest list, one past its
\* end, and two negative ones (main passes every id but -1 to Finish)
TaskIds == (0 - 2)..MaxListLen

\* Add (lines 38-44)
Add(t, taskDescription) ==
    [nil |-> FALSE, tasks |-> Append(t.tasks, taskDescription)]

\* Lines 66-72: the tasks whose position i, counted from 0, is not taskId
RECURSIVE Finish_loop(_, _, _, _)
Finish_loop(ts, taskId, i, newTasks) ==
    IF i >= Len(ts) THEN newTasks
    ELSE Finish_loop(ts, taskId, i + 1,
                     IF i /= taskId THEN Append(newTasks, ts[i + 1]) ELSE newTasks)

\* Finish (lines 59-74): the error returned, "nil" for none, and the list
Finish(t, taskId) ==
    IF t.nil THEN [error |-> "No tasks found", list |-> t]
    ELSE IF Len(t.tasks) <= taskId THEN [error |-> "No task for id found", list |-> t]
    ELSE [error |-> "nil",
          list |-> [nil |-> FALSE, tasks |-> Finish_loop(t.tasks, taskId, 0, << >>)]]

InitTaskList ==
    /\ tasklist = NoTaskList
    /\ tasks = EmptyMap
    /\ done = EmptyMap
    /\ files = [kind \in Kinds |-> Absent]
    /\ last = [op |-> "none", ref |-> EmptyString, text |-> EmptyString]
    /\ err = NoError
    /\ ids = << >>
    /\ ps = EmptyMap
    /\ k = 0
    /\ pc = "tasklist"
    /\ ps_swapped = EmptyMap
    /\ picked = [kind |-> "none", key |-> EmptyString]
    /\ opt = FALSE
    /\ lines = {}
    /\ decoded = EmptyMap

tasklist_Add ==
    \E taskDescription \in Descriptions :
        /\ pc = "tasklist"
        /\ Len(tasklist.tasks) < MaxListLen
        /\ tasklist' = Add(tasklist, taskDescription)
        /\ last' = [op |-> "Add", ref |-> EmptyString, text |-> EmptyString]
        /\ err' = NoError
        /\ UNCHANGED <<tasks, done, files, ids, ps, k, pc, ps_swapped, picked>>
        /\ UNCHANGED <<opt, lines, decoded>>

\* k holds the task id Finish was called with, err the error it returned
tasklist_Finish ==
    \E taskId \in TaskIds :
        /\ pc = "tasklist"
        /\ tasklist' = Finish(tasklist, taskId).list
        /\ k' = taskId
        /\ last' = [op |-> "Finish", ref |-> EmptyString, text |-> EmptyString]
        /\ err' = IF Finish(tasklist, taskId).error = "nil" THEN NoError
                  ELSE [kind |-> Finish(tasklist, taskId).error, value |-> EmptyString]
        /\ UNCHANGED <<tasks, done, files, ids, ps, pc, ps_swapped, picked>>
        /\ UNCHANGED <<opt, lines, decoded>>

NextTaskList == tasklist_Add \/ tasklist_Finish

TaskListSpec == InitTaskList /\ [][NextTaskList]_vars

\* C15: Finish(i) with 0 <= i < number of tasks returns no error and leaves
\* the list one shorter, holding the other tasks with their descriptions in
\* the order they had; with any other i it returns an error and leaves the
\* list as it was.
C15_FinishRemovesTaskAtIndex ==
    [][(last'.op = "Finish") =>
         LET i == k'
             n == Len(tasklist.tasks)
         IN  IF 0 <= i /\ i < n
             THEN /\ err' = NoError
                  /\ Len(tasklist'.tasks) = n - 1
                  /\ tasklist'.tasks =
                       [j \in 1..(n - 1) |-> IF j <= i THEN tasklist.tasks[j]
                                             ELSE tasklist.tasks[j + 1]]
             ELSE /\ err' /= NoError
                  /\ tasklist' = tasklist]_vars

(***************************************************************************)
(* LoadSpec: NewTaskDict (src/t.go:172-215) in a directory where each task *)
(* file is absent or holds some of the lines LoadLines.                    *)
(***************************************************************************)
\* a line as write leaves it, a line typed in a text editor, and a comment
LoadLines ==
    tasklines_of(Put(Put(EmptyMap, ID, hash(<<"a">>)), TEXT, <<"a">>))
      \cup {<<"b", "\n">>, <<"#", " ", "a", "\n">>}

FilesOnDisk == {Absent} \cup {[exists |-> TRUE, lines |-> ls] : ls \in SUBSET LoadLines}

\* Lines 185-213 for the kinds in the order the range over filemap visits
\* them: the first file that does not exist ends the loop (break, line 189).
RECURSIVE NewTaskDict_from(_, _, _, _, _)
NewTaskDict_from(fs, t, d, order, n) ==
    IF n > Len(order) THEN {[tasks |-> t, done |-> d]}
    ELSE IF ~fs[order[n]].exists THEN {[tasks |-> t, done |-> d]}
    ELSE IF order[n] = "tasks"
    THEN UNION {NewTaskDict_from(fs, part, d, order, n + 1)
                : part \in load_file(t, fs["tasks"].lines)}
    ELSE UNION {NewTaskDict_from(fs, t, part, order, n + 1)
                : part \in load_file(d, fs["done"].lines)}

\* Every TaskDict that NewTaskDict can return for the files fs.
NewTaskDict(fs) ==
    UNION {NewTaskDict_from(fs, EmptyMap, EmptyMap, o, 1) : o \in Orders(Kinds)}

InitLoad ==
    /\ files \in [Kinds -> FilesOnDisk]
    /\ tasks = EmptyMap
    /\ done = EmptyMap
    /\ last = [op |-> "none", ref |-> EmptyString, text |-> EmptyString]
    /\ err = NoError
    /\ ids = << >>
    /\ ps = EmptyMap
    /\ k = 0
    /\ pc = "load"
    /\ ps_swapped = EmptyMap
    /\ picked = [kind |-> "none", key |-> EmptyString]
    /\ opt = FALSE
    /\ lines = {}
    /\ decoded = EmptyMap
    /\ tasklist = NoTaskList

load_NewTaskDict ==
    /\ pc = "load"
    /\ \E td \in NewTaskDict(files) :
         /\ tasks' = td.tasks
         /\ done' = td.done
    /\ pc' = "constructed"
    /\ UNCHANGED <<files, last, err, ids, ps, k, ps_swapped, picked>>
    /\ UNCHANGED <<opt, lines, decoded, tasklist>>

NextLoad == load_NewTaskDict

LoadSpec == InitLoad /\ [][NextLoad]_vars

\* C16: after NewTaskDict, for each of the two task files that exists, the
\* task of every line of it that is not a comment is in the file's
\* partition, whether or not the other file exists and whichever file was
\* visited first.
C16_LoadsEachPartition ==
    pc = "constructed" =>
        \A kind \in Kinds :
            files[kind].exists =>
                \A line \in fileLines(files[kind].lines) :
                    LET got == task_from_taskline(TrimSpace(line))
                    IN  ~got.nil =>
                            /\ got.task[ID] \in DOMAIN tasksForKind(kind)
                            /\ tasksForKind(kind)[got.task[ID]] = got.task

====
